---- MODULE Spec2Model ----
(***************************************************************************)
(* InstanceController of evolution-api                                     *)
(* (src/src/whatsapp/controllers/instance.controller.ts).                  *)
(*                                                                         *)
(* The controller's handlers are async functions: each runs synchronously  *)
(* up to an await and is resumed later.  A handler is therefore modelled   *)
(* as a sequence of steps, one per synchronous stretch, driven by the pc   *)
(* of the call; the protocol engine moves on its own between the steps.    *)
(* Collaborators whose code is outside the controller (the monitor, the    *)
(* auth service, the channel services and the engine) are modelled by the  *)
(* contract the design document gives them.                                *)
(***************************************************************************)
EXTENDS Naturals, Sequences, FiniteSets

(* ---------------------------------------------------------------- bounds *)

\* QR payloads the engine issues for one instance name
MaxQr == 1
\* optional channels (webhook, websocket, rabbitmq, sqs, typebot) one
\* createInstance request asks for
MaxChannels == 2

(* ------------------------------------------------------------- constants *)

Names == {"alice", "bob"}
\* the names the requests of Spec address
SpecNames == {"alice"}
Slots == {1, 2}
\* Spec runs one request at a time
SpecSlots == {1}

NoToken == ""
Tokens == {NoToken, "t1"}
WHATSAPP_BAILEYS == "WHATSAPP-BAILEYS"
WHATSAPP_BUSINESS == "WHATSAPP-BUSINESS"
Integrations == {WHATSAPP_BAILEYS, WHATSAPP_BUSINESS}

\* a url argument: absent, well formed, or rejected by isURL
UrlInputs == {"none", "valid", "invalid"}

\* an optional array argument: undefined, or a list
Undefined == [present |-> FALSE, list |-> <<>>]
Some(l) == [present |-> TRUE, list |-> l]
ExplicitEvents == <<"MESSAGES_UPSERT", "CALL">>
EventInputs == {Undefined, Some(<<>>), Some(ExplicitEvents)}

\* the literal every channel block assigns to newEvents
DefaultEvents ==
  << "APPLICATION_STARTUP", "QRCODE_UPDATED", "MESSAGES_SET",
     "MESSAGES_UPSERT", "MESSAGES_UPDATE", "MESSAGES_DELETE", "SEND_MESSAGE",
     "CONTACTS_SET", "CONTACTS_UPSERT", "CONTACTS_UPDATE", "PRESENCE_UPDATE",
     "CHATS_SET", "CHATS_UPSERT", "CHATS_UPDATE", "CHATS_DELETE",
     "GROUPS_UPSERT", "GROUP_UPDATE", "GROUP_PARTICIPANTS_UPDATE",
     "CONNECTION_UPDATE", "LABELS_EDIT", "LABELS_ASSOCIATION", "CALL",
     "NEW_JWT_TOKEN", "TYPEBOT_START", "TYPEBOT_CHANGE_STATUS",
     "CHAMA_AI_ACTION" >>

Range(s) == {s[i] : i \in 1..Len(s)}

EventChannels == {"webhook", "websocket", "rabbitmq", "sqs"}
\* the channels switched on by a <channel>_enabled flag
FlagChannels == {"websocket", "rabbitmq", "sqs"}
OptionalChannels == EventChannels \cup {"typebot"}

(* ----------------------------------------------------------------- state *)

VARIABLES
  waInstances,   \* waMonitor.waInstances: name -> instance object
  saved,         \* names whose record waMonitor.saveInstance persisted
  authStore,     \* name -> credential token held by the auth service
  calls,         \* the requests in flight, one per slot
  qrSeen         \* name -> the QR the last connecting-state connect returned

vars == <<waInstances, saved, authStore, calls, qrSeen>>

\* the per-channel configuration an instance caches
NoChannel == [enabled |-> FALSE, events |-> <<>>]

\* a name with no entry in waInstances.  starting: the engine's connect has
\* been invoked and the engine has not yet reported a state for it
NoInstance ==
  [ exists |-> FALSE, state |-> "close", starting |-> FALSE,
    qrCode |-> 0, qrSeq |-> 0,
    webhook |-> NoChannel, websocket |-> NoChannel, rabbitmq |-> NoChannel,
    sqs |-> NoChannel, typebot |-> FALSE, chatwoot |-> FALSE,
    settings |-> FALSE ]

\* new BaileysStartupService(...) / new BusinessStartupService(...)
NewInstance == [NoInstance EXCEPT !.exists = TRUE]

NoResult ==
  [ status |-> "none", state |-> "undefined", qrcode |-> 0,
    enabled |-> [ch \in FlagChannels |-> FALSE],
    webhook |-> Undefined, websocket |-> Undefined, rabbitmq |-> Undefined,
    sqs |-> Undefined, typebot |-> FALSE, chatwoot |-> FALSE ]

NoRequest ==
  [ token |-> NoToken, integration |-> WHATSAPP_BAILEYS, number |-> FALSE,
    qrcode |-> FALSE, webhook |-> "none", typebot_url |-> "none",
    events |-> [ch \in EventChannels |-> Undefined],
    enabled |-> [ch \in EventChannels |-> FALSE],
    chatwoot_account_id |-> FALSE, chatwoot_token |-> FALSE,
    chatwoot_url |-> "none", chatwoot_flags |-> TRUE ]

\* no connect has returned a QR for the current connecting period.
\* valid: the state has stayed "connecting" since; quiet: the engine has
\* not touched the instance at all since
NoSeen == [valid |-> FALSE, quiet |-> FALSE, qr |-> 0]

\* a free slot.  outcome: "none" while running, "returned" or "threw";
\* st: the connection state the handler read (st2: the one the logout
\* inside deleteInstance read); trace: the collaborator
\* calls the handler has made, in order; done: the channels whose create
\* completed; failed: the collaborator calls that raised; dup: the name was registered
\* when the request arrived; seen: qrSeen as the handler found it; kind,
\* to: for a dispatch, the event kind and the adapters that were called
IdleCall ==
  [ op |-> "idle", pc |-> "idle", name |-> "", outcome |-> "none",
    st |-> "undefined", st2 |-> "undefined", req |-> NoRequest, res |-> NoResult, trace |-> <<>>,
    done |-> {}, failed |-> {}, dup |-> FALSE, seen |-> NoSeen,
    kind |-> "", to |-> {} ]

Init ==
  /\ waInstances = [n \in Names |-> NoInstance]
  /\ saved = {}
  /\ authStore = [n \in Names |-> NoToken]
  /\ calls = [c \in Slots |-> IdleCall]
  /\ qrSeen = [n \in Names |-> NoSeen]

(* --------------------------------------------------------------- helpers *)

Log(call, what) == [call EXCEPT !.trace = Append(@, what)]

\* the handler returns / throws to its caller
Return(call) == [call EXCEPT !.pc = "done", !.outcome = "returned"]
Throw(call) == [call EXCEPT !.pc = "done", !.outcome = "threw"]

SetCall(c, call) == calls' = [calls EXCEPT ![c] = call]

\* a write to the instance object the handler holds.  Every engine-side
\* change of state ends the period qrSeen describes.
SetInstance(n, inst) ==
  /\ waInstances' = [waInstances EXCEPT ![n] = inst]
  /\ qrSeen' = IF ~inst.exists \/ inst.state # waInstances[n].state
               THEN [qrSeen EXCEPT ![n] = NoSeen]
               ELSE IF inst.qrCode # waInstances[n].qrCode
               THEN [qrSeen EXCEPT ![n].quiet = FALSE]
               ELSE qrSeen

Running(c, op, pc) == calls[c].op = op /\ calls[c].pc = pc

\* the optional channels the request has asked for so far
Requested(call) ==
  {ch \in EventChannels : call.req.enabled[ch]}
    \cup (IF call.req.typebot_url # "none" THEN {"typebot"} ELSE {})

MayRequest(call) == Cardinality(Requested(call)) < MaxChannels

(* ------------------------------------------------------- the collaborators *)

\* authService.checkDuplicateToken(token): rejects a token some instance
\* already holds; an absent token is never a duplicate
checkDuplicateToken(token) ==
  token # NoToken /\ \E m \in Names : authStore[m] = token

\* authService.generateHash(instance, token): the token given, or a new one
generateHash(n, token) == IF token = NoToken THEN "generated" ELSE token

\* waMonitor.saveInstance: the Registry's register refuses a name it holds
saveInstanceConflict(n) == waInstances[n].exists

\* the engine's connect: the session starts connecting, with no QR yet
EngineConnect(inst) ==
  [inst EXCEPT !.state = "connecting", !.starting = FALSE, !.qrCode = 0]
\* the engine's connect, when 'connecting' is only reported later, as one of
\* the engine's state-change notifications
EngineStart(inst) == [inst EXCEPT !.starting = TRUE]
\* what the invocation of the engine's connect leaves, by the time the
\* caller runs again
ConnectInvoked(inst, now) ==
  IF now THEN EngineConnect(inst) ELSE EngineStart(inst)
\* the engine's logout: the session is closed
EngineLogout(inst) ==
  [inst EXCEPT !.state = "close", !.starting = FALSE, !.qrCode = 0]
\* the engine's reload: a new connecting cycle
EngineReload(inst) ==
  [inst EXCEPT !.state = "connecting", !.starting = FALSE, !.qrCode = 0]

\* <channel>Service.create(instance, cfg) then <channel>Service.find(instance)
ChannelCreate(inst, ch, events) ==
  [inst EXCEPT ![ch] = [enabled |-> TRUE, events |-> events]]
ChannelFind(inst, ch) == inst[ch]

\* the adapters with an event filter, in the order the instance tries them
AdapterOrder == <<"webhook", "websocket", "rabbitmq", "sqs">>

\* as fanOut, a failed delivery ending the loop
RECURSIVE fanOut_AbortsOnFailure(_, _, _, _)
fanOut_AbortsOnFailure(inst, kind, failing, i) ==
  IF i > Len(AdapterOrder) THEN {}
  ELSE LET ch == AdapterOrder[i] IN
         IF inst[ch].enabled /\ kind \in Range(inst[ch].events)
         THEN IF ch \in failing THEN {ch}
              ELSE {ch} \cup fanOut_AbortsOnFailure(inst, kind, failing, i + 1)
         ELSE fanOut_AbortsOnFailure(inst, kind, failing, i + 1)

\* instance.sendDataWebhook(kind, payload): every adapter that is enabled
\* and whose filter holds the kind is called; a delivery that fails
\* (failing) is caught and logged by the adapter and the loop goes on.
\* The adapters called, from the i-th on.
RECURSIVE fanOut(_, _, _, _)
fanOut(inst, kind, failing, i) ==
  IF i > Len(AdapterOrder) THEN {}
  ELSE LET ch == AdapterOrder[i] IN
         IF inst[ch].enabled /\ kind \in Range(inst[ch].events)
         THEN {ch} \cup fanOut(inst, kind, failing, i + 1)
         ELSE fanOut(inst, kind, failing, i + 1)

(* -------------------------------------------------------- createInstance *)

\* a request arrives: the handler logs and calls checkDuplicateToken
createInstance(c, n) ==
  /\ calls[c].op = "idle"
  /\ \E token \in Tokens, integration \in Integrations, number \in BOOLEAN :
       \* only a business request is looked at for its number
       /\ number => integration = WHATSAPP_BUSINESS
       /\ SetCall(c, Log([IdleCall EXCEPT
                            !.op = "create", !.pc = "checkDuplicateToken",
                            !.name = n, !.dup = waInstances[n].exists,
                            !.req.token = token, !.req.number = number,
                            !.req.integration = integration],
                         "checkDuplicateToken"))
  /\ UNCHANGED <<waInstances, saved, authStore, qrSeen>>

\* as createInstance_checkDuplicateToken, the promise of checkDuplicateToken
\* not awaited: its rejection reaches nobody
createInstance_checkDuplicateToken_NotAwaited(c) ==
  /\ Running(c, "create", "checkDuplicateToken")
  /\ LET call == calls[c] IN
       IF call.req.token = NoToken /\ call.req.integration = WHATSAPP_BUSINESS
       THEN SetCall(c, Throw(call))
       ELSE SetCall(c, Log([call EXCEPT !.pc = "saveInstance"],
                           "saveInstance"))
  /\ UNCHANGED <<waInstances, saved, authStore, qrSeen>>

\* the token checks, the construction of the instance object, and the call
\* of saveInstance
createInstance_checkDuplicateToken(c) ==
  /\ Running(c, "create", "checkDuplicateToken")
  /\ LET call == calls[c] IN
       IF checkDuplicateToken(call.req.token)
       THEN SetCall(c, Throw(call))
       ELSE IF call.req.token = NoToken
               /\ call.req.integration = WHATSAPP_BUSINESS
       THEN SetCall(c, Throw(call))
       ELSE SetCall(c, Log([call EXCEPT !.pc = "saveInstance"],
                           "saveInstance"))
  /\ UNCHANGED <<waInstances, saved, authStore, qrSeen>>

\* as createInstance_saveInstance, the promise of saveInstance not awaited
createInstance_saveInstance_NotAwaited(c) ==
  /\ Running(c, "create", "saveInstance")
  /\ SetCall(c, [calls[c] EXCEPT !.pc = "register"])
  /\ saved' = saved \cup {calls[c].name}
  /\ UNCHANGED <<waInstances, authStore, qrSeen>>

\* saveInstance settles: the record is persisted, or the name is refused
createInstance_saveInstance(c) ==
  /\ Running(c, "create", "saveInstance")
  /\ LET call == calls[c] IN
       IF saveInstanceConflict(call.name)
       THEN /\ SetCall(c, Throw(call))
            /\ UNCHANGED saved
       ELSE /\ SetCall(c, [call EXCEPT !.pc = "register"])
            /\ saved' = saved \cup {call.name}
  /\ UNCHANGED <<waInstances, authStore, qrSeen>>

\* INSTANCE_CREATE is sent through the new instance, the instance is put
\* into waInstances, and generateHash is called
createInstance_register(c) ==
  /\ Running(c, "create", "register")
  /\ LET call == calls[c] IN
       /\ SetInstance(call.name, NewInstance)
       /\ SetCall(c, Log(Log(Log([call EXCEPT !.pc = "generateHash"],
                                 "INSTANCE_CREATE"),
                             "register"),
                         "generateHash"))
  /\ UNCHANGED <<saved, authStore>>

\* generateHash settles
createInstance_generateHash(c) ==
  /\ Running(c, "create", "generateHash")
  /\ LET call == calls[c] IN
       /\ authStore' = [authStore EXCEPT
                          ![call.name] = generateHash(call.name, call.req.token)]
       /\ SetCall(c, [call EXCEPT !.pc = "webhook"])
  /\ UNCHANGED <<waInstances, saved, qrSeen>>

\* newEvents of the webhook block: the default list when events is absent
\* or empty
webhookNewEvents(events) ==
  IF ~events.present \/ Len(events.list) = 0
  THEN Some(DefaultEvents)
  ELSE Some(events.list)

\* newEvents of the websocket, rabbitmq and sqs blocks: .length of an
\* absent list raises a TypeError, shown as Undefined
arrayNewEvents(events) ==
  IF ~events.present THEN Undefined
  ELSE IF Len(events.list) = 0 THEN Some(DefaultEvents)
  ELSE Some(events.list)

\* the try block of an event channel: create, then find; out names the
\* collaborator call that raises, if any.  What is raised is logged and the
\* handler goes on.
tryChannel(c, call, ch, next, newEvents, out) ==
  LET n == call.name
      inst == ChannelCreate(waInstances[n], ch, newEvents.list)
  IN IF ~newEvents.present
     THEN /\ SetCall(c, [call EXCEPT !.pc = next])
          /\ UNCHANGED <<waInstances, qrSeen>>
     ELSE IF out = "create"
     THEN /\ SetCall(c, [call EXCEPT !.pc = next, !.failed = @ \cup {ch}])
          /\ UNCHANGED <<waInstances, qrSeen>>
     ELSE /\ SetInstance(n, inst)
          /\ IF out = "find"
             THEN SetCall(c, [call EXCEPT !.pc = next, !.done = @ \cup {ch},
                                          !.failed = @ \cup {ch}])
             ELSE SetCall(c, [call EXCEPT
                                !.pc = next, !.done = @ \cup {ch},
                                !.res[ch] = Some(ChannelFind(inst, ch).events)])

ServiceOutcomes == {"ok", "create", "find"}

\* the request asks for an event channel with this events argument
Ask(call, ch, events) ==
  [call EXCEPT !.req.enabled[ch] = TRUE, !.req.events[ch] = events]

\* if (webhook) { isURL; try { ... } catch { log } }
createInstance_webhook(c) ==
  /\ Running(c, "create", "webhook")
  /\ LET call == calls[c] IN
       \/ /\ SetCall(c, [call EXCEPT !.pc = "websocket"])
          /\ UNCHANGED <<waInstances, qrSeen>>
       \/ /\ MayRequest(call)
          /\ SetCall(c, Throw([Ask(call, "webhook", Undefined)
                                 EXCEPT !.req.webhook = "invalid"]))
          /\ UNCHANGED <<waInstances, qrSeen>>
       \/ /\ MayRequest(call)
          /\ \E events \in EventInputs, out \in ServiceOutcomes :
               tryChannel(c, [Ask(call, "webhook", events)
                                EXCEPT !.req.webhook = "valid"],
                          "webhook", "websocket",
                          webhookNewEvents(events), out)
  /\ UNCHANGED <<saved, authStore>>

\* if (<channel>_enabled) { try { ... } catch { log } }
arrayChannel(c, ch, next) ==
  /\ Running(c, "create", ch)
  /\ LET call == calls[c] IN
       \/ /\ SetCall(c, [call EXCEPT !.pc = next])
          /\ UNCHANGED <<waInstances, qrSeen>>
       \/ /\ MayRequest(call)
          /\ \E events \in EventInputs, out \in ServiceOutcomes :
               tryChannel(c, Ask(call, ch, events), ch, next,
                          arrayNewEvents(events), out)
  /\ UNCHANGED <<saved, authStore>>

createInstance_websocket(c) == arrayChannel(c, "websocket", "rabbitmq")
createInstance_rabbitmq(c) == arrayChannel(c, "rabbitmq", "sqs")
createInstance_sqs(c) == arrayChannel(c, "sqs", "typebot")

\* if (typebot_url) { try { isURL; typebotService.create } catch { log } },
\* then the settings and the integration record.  A business instance
\* needs a number.
createInstance_typebot(c) ==
  /\ Running(c, "create", "typebot")
  /\ LET call == calls[c]
         n == call.name
         settle(cl, inst) ==
           IF cl.req.integration = WHATSAPP_BUSINESS /\ ~cl.req.number
           THEN /\ SetCall(c, Throw(cl))
                /\ SetInstance(n, [inst EXCEPT !.settings = TRUE])
           ELSE /\ SetCall(c, [cl EXCEPT !.pc = "chatwoot"])
                /\ SetInstance(n, [inst EXCEPT !.settings = TRUE])
     IN
       \/ settle(call, waInstances[n])
       \/ /\ MayRequest(call)
          /\ settle([call EXCEPT !.req.typebot_url = "invalid"],
                    waInstances[n])
       \/ /\ MayRequest(call)
          /\ \E ok \in BOOLEAN :
               IF ok
               THEN settle([call EXCEPT !.req.typebot_url = "valid",
                                        !.done = @ \cup {"typebot"}],
                           [waInstances[n] EXCEPT !.typebot = TRUE])
               ELSE settle([call EXCEPT !.req.typebot_url = "valid",
                                        !.failed = @ \cup {"typebot"}],
                           waInstances[n])
  /\ UNCHANGED <<saved, authStore>>

\* the chatwoot arguments a request carries: account_id, token, url
ChatwootInputs ==
  { <<FALSE, FALSE, "none">>, <<TRUE, FALSE, "none">>,
    <<FALSE, TRUE, "valid">>, <<TRUE, TRUE, "none">>,
    <<TRUE, TRUE, "valid">>, <<TRUE, TRUE, "invalid">> }

\* the object createInstance returns: enabled is the request's flag, events
\* the list find gave, typebot.enabled whether a typebot_url was given
result(call, qr) ==
  Return([call EXCEPT !.res.status = "created",
                      !.res.enabled =
                         [ch \in FlagChannels |-> call.req.enabled[ch]],
                      !.res.typebot = (call.req.typebot_url # "none"),
                      !.res.qrcode = qr])

\* as createInstance_plain, without the test of qrcode: the engine's
\* connect is called for every request
createInstance_plain_AlwaysConnects(c) ==
  /\ Running(c, "create", "chatwoot")
  /\ \E cw \in ChatwootInputs, qrcode \in BOOLEAN, ok \in BOOLEAN,
        now \in BOOLEAN :
       LET call == [calls[c] EXCEPT !.req.chatwoot_account_id = cw[1],
                                    !.req.chatwoot_token = cw[2],
                                    !.req.chatwoot_url = cw[3],
                                    !.req.qrcode = qrcode]
           n == call.name
       IN /\ ~cw[1] \/ ~cw[2] \/ cw[3] = "none"
          /\ IF ok
             THEN /\ SetCall(c, Log([call EXCEPT !.pc = "delay"], "connect"))
                  /\ SetInstance(n, ConnectInvoked(waInstances[n], now))
             ELSE /\ SetCall(c, Throw(Log([call EXCEPT
                                                !.failed = @ \cup {"connect"}],
                                            "connect")))
                  /\ UNCHANGED <<waInstances, qrSeen>>
  /\ UNCHANGED <<saved, authStore>>

\* if (!chatwoot_account_id || !chatwoot_token || !chatwoot_url): connect
\* when qrcode is asked for, and return
createInstance_plain(c) ==
  /\ Running(c, "create", "chatwoot")
  /\ \E cw \in ChatwootInputs, qrcode \in BOOLEAN, ok \in BOOLEAN,
        now \in BOOLEAN :
       LET call == [calls[c] EXCEPT !.req.chatwoot_account_id = cw[1],
                                    !.req.chatwoot_token = cw[2],
                                    !.req.chatwoot_url = cw[3],
                                    !.req.qrcode = qrcode]
           n == call.name
       IN /\ ~cw[1] \/ ~cw[2] \/ cw[3] = "none"
          /\ IF ~qrcode
             THEN /\ ok
                  /\ SetCall(c, result(call, 0))
                  /\ UNCHANGED <<waInstances, qrSeen>>
             ELSE IF ok
             THEN /\ SetCall(c, Log([call EXCEPT !.pc = "delay"], "connect"))
                  /\ SetInstance(n, ConnectInvoked(waInstances[n], now))
             ELSE /\ SetCall(c, Throw(Log([call EXCEPT
                                                !.failed = @ \cup {"connect"}],
                                            "connect")))
                  /\ UNCHANGED <<waInstances, qrSeen>>
  /\ UNCHANGED <<saved, authStore>>

\* await delay(5000); getQrcode = instance.qrCode; return result
createInstance_delay(c) ==
  /\ Running(c, "create", "delay")
  /\ SetCall(c, result(calls[c], waInstances[calls[c].name].qrCode))
  /\ UNCHANGED <<waInstances, saved, authStore, qrSeen>>

\* as createInstance_chatwoot, without the validation of the url and of
\* the three flags
createInstance_chatwoot_NoValidation(c) ==
  /\ Running(c, "create", "chatwoot")
  /\ \E cw \in ChatwootInputs, qrcode \in BOOLEAN, flags \in BOOLEAN,
        ok \in BOOLEAN :
       LET call == [calls[c] EXCEPT !.req.chatwoot_account_id = cw[1],
                                    !.req.chatwoot_token = cw[2],
                                    !.req.chatwoot_url = cw[3],
                                    !.req.chatwoot_flags = flags,
                                    !.req.qrcode = qrcode]
           n == call.name
       IN /\ cw[1] /\ cw[2] /\ cw[3] # "none"
          /\ IF ok
             THEN /\ SetCall(c, result([call EXCEPT
                                          !.res.chatwoot = TRUE,
                                          !.done = @ \cup {"chatwoot"}], 0))
                  /\ SetInstance(n, [waInstances[n] EXCEPT !.chatwoot = TRUE])
             ELSE /\ SetCall(c, result([call EXCEPT
                                          !.res.chatwoot = TRUE,
                                          !.failed = @ \cup {"chatwoot"}], 0))
                  /\ UNCHANGED <<waInstances, qrSeen>>
  /\ UNCHANGED <<saved, authStore>>

\* all three chatwoot fields given: the url and the three flags are
\* validated, chatwootService.create is tried, and the result is returned
\* (the three "is required" throws before them cannot be reached here)
createInstance_chatwoot(c) ==
  /\ Running(c, "create", "chatwoot")
  /\ \E cw \in ChatwootInputs, qrcode \in BOOLEAN, flags \in BOOLEAN,
        ok \in BOOLEAN :
       LET call == [calls[c] EXCEPT !.req.chatwoot_account_id = cw[1],
                                    !.req.chatwoot_token = cw[2],
                                    !.req.chatwoot_url = cw[3],
                                    !.req.chatwoot_flags = flags,
                                    !.req.qrcode = qrcode]
           n == call.name
       IN /\ cw[1] /\ cw[2] /\ cw[3] # "none"
          /\ IF cw[3] = "invalid" \/ ~flags
             THEN /\ ok
                  /\ SetCall(c, Throw(call))
                  /\ UNCHANGED <<waInstances, qrSeen>>
             ELSE IF ok
             THEN /\ SetCall(c, result([call EXCEPT
                                          !.res.chatwoot = TRUE,
                                          !.done = @ \cup {"chatwoot"}], 0))
                  /\ SetInstance(n, [waInstances[n] EXCEPT !.chatwoot = TRUE])
             ELSE /\ SetCall(c, result([call EXCEPT
                                          !.res.chatwoot = TRUE,
                                          !.failed = @ \cup {"chatwoot"}], 0))
                  /\ UNCHANGED <<waInstances, qrSeen>>
  /\ UNCHANGED <<saved, authStore>>

\* the caller has its answer
respond(c) ==
  /\ calls[c].pc = "done"
  /\ SetCall(c, IdleCall)
  /\ UNCHANGED <<waInstances, saved, authStore, qrSeen>>

(* ------------------------------------------------------- connectionState *)

\* this.waMonitor.waInstances[instanceName]?.connectionStatus?.state
connectionState(n) ==
  IF waInstances[n].exists THEN waInstances[n].state ELSE "undefined"

(* ----------------------------------------------------- connectToWhatsapp *)

\* if (state == 'connecting') return instance.qrCode
connect_connecting(c, n, call) ==
  LET qr == waInstances[n].qrCode IN
    /\ SetCall(c, Return([call EXCEPT !.res.status = "qrcode",
                                      !.res.qrcode = qr]))
    /\ qrSeen' = [qrSeen EXCEPT ![n] = [valid |-> TRUE, quiet |-> TRUE,
                                        qr |-> qr]]
    /\ UNCHANGED waInstances

\* if (state == 'close') { await instance.connectToWhatsapp(number); ... };
\* what the engine raises is caught and logged, and nothing is returned
connect_close(c, n, call) ==
  \E ok \in BOOLEAN, now \in BOOLEAN :
    IF ok
    THEN /\ SetCall(c, Log([call EXCEPT !.pc = "delay"], "connect"))
         /\ SetInstance(n, ConnectInvoked(waInstances[n], now))
    ELSE /\ SetCall(c, Return(Log([call EXCEPT !.res.status = "undefined",
                                               !.failed = {"connect"}],
                                  "connect")))
         /\ UNCHANGED <<waInstances, qrSeen>>

\* as connectToWhatsapp, without the branch for 'connecting': the handler
\* falls through to the engine's connect
connectToWhatsapp_Reconnects(c, n) ==
  /\ calls[c].op = "idle"
  /\ LET st == connectionState(n)
         call == [IdleCall EXCEPT !.op = "connect", !.name = n, !.st = st,
                                  !.seen = qrSeen[n]]
     IN CASE st = "undefined" ->
               /\ SetCall(c, Return([call EXCEPT !.res.status = "undefined"]))
               /\ UNCHANGED <<waInstances, qrSeen>>
          [] st = "open" ->
               /\ SetCall(c, Return([call EXCEPT !.res.status = "state",
                                                 !.res.state = st]))
               /\ UNCHANGED <<waInstances, qrSeen>>
          [] st \in {"connecting", "close"} -> connect_close(c, n, call)
  /\ UNCHANGED <<saved, authStore>>

\* the handler up to its first await: every branch on the state read
connectToWhatsapp(c, n) ==
  /\ calls[c].op = "idle"
  /\ LET st == connectionState(n)
         call == [IdleCall EXCEPT !.op = "connect", !.name = n, !.st = st,
                                  !.seen = qrSeen[n]]
     IN CASE st = "undefined" ->
               \* the throw is caught and logged: nothing is returned
               /\ SetCall(c, Return([call EXCEPT !.res.status = "undefined"]))
               /\ UNCHANGED <<waInstances, qrSeen>>
          [] st = "open" ->
               /\ SetCall(c, Return([call EXCEPT !.res.status = "state",
                                                 !.res.state = st]))
               /\ UNCHANGED <<waInstances, qrSeen>>
          [] st = "connecting" -> connect_connecting(c, n, call)
          [] st = "close" -> connect_close(c, n, call)
  /\ UNCHANGED <<saved, authStore>>

\* await delay(5000); return instance.qrCode
connectToWhatsapp_delay(c) ==
  /\ Running(c, "connect", "delay")
  /\ SetCall(c, Return([calls[c] EXCEPT
                          !.res.status = "qrcode",
                          !.res.qrcode = waInstances[calls[c].name].qrCode]))
  /\ UNCHANGED <<waInstances, saved, authStore, qrSeen>>

(* ------------------------------------------------------- restartInstance *)

\* as restartInstance, the switch on the state taking the 'open' case for
\* every instance there is
restartInstance_AlwaysReloads(c, n) ==
  /\ calls[c].op = "idle"
  /\ LET st == connectionState(n)
         call == [IdleCall EXCEPT !.op = "restart", !.name = n, !.st = st]
     IN IF st # "undefined"
        THEN \E ok \in BOOLEAN :
               LET cl == Log(Log(call, "clearCacheChatwoot"),
                             "reloadConnection")
               IN IF ok
                  THEN /\ SetCall(c, [cl EXCEPT !.pc = "delay"])
                       /\ SetInstance(n, EngineReload(waInstances[n]))
                  ELSE /\ SetCall(c, Return([cl EXCEPT
                                               !.res.status = "undefined",
                                               !.failed = {"reloadConnection"}]))
                       /\ UNCHANGED <<waInstances, qrSeen>>
        ELSE /\ SetCall(c, Return([call EXCEPT !.res.status = "state",
                                               !.res.state = st]))
             /\ UNCHANGED <<waInstances, qrSeen>>
  /\ UNCHANGED <<saved, authStore>>

\* switch (state) { case 'open': clearCacheChatwoot; reloadConnection; ...
\* default: return connectionState }
restartInstance(c, n) ==
  /\ calls[c].op = "idle"
  /\ LET st == connectionState(n)
         call == [IdleCall EXCEPT !.op = "restart", !.name = n, !.st = st]
     IN IF st = "open"
        THEN \E ok \in BOOLEAN :
               LET cl == Log(Log(call, "clearCacheChatwoot"),
                             "reloadConnection")
               IN IF ok
                  THEN /\ SetCall(c, [cl EXCEPT !.pc = "delay"])
                       /\ SetInstance(n, EngineReload(waInstances[n]))
                  ELSE /\ SetCall(c, Return([cl EXCEPT
                                               !.res.status = "undefined",
                                               !.failed = {"reloadConnection"}]))
                       /\ UNCHANGED <<waInstances, qrSeen>>
        ELSE /\ SetCall(c, Return([call EXCEPT !.res.status = "state",
                                               !.res.state = st]))
             /\ UNCHANGED <<waInstances, qrSeen>>
  /\ UNCHANGED <<saved, authStore>>

\* await delay(2000); return await this.connectionState(...)
restartInstance_delay(c) ==
  /\ Running(c, "restart", "delay")
  /\ SetCall(c, Return([calls[c] EXCEPT
                          !.res.status = "state",
                          !.res.state = connectionState(calls[c].name)]))
  /\ UNCHANGED <<waInstances, saved, authStore, qrSeen>>

(* ---------------------------------------------------------------- logout *)

\* the state is read inside connectionState, whose promise is awaited
logout(c, n) ==
  /\ calls[c].op = "idle"
  /\ SetCall(c, [IdleCall EXCEPT !.op = "logout", !.pc = "resume",
                                 !.name = n, !.st = connectionState(n)])
  /\ UNCHANGED <<waInstances, saved, authStore, qrSeen>>

\* as logoutBody, without the test for 'close'
logoutBody_NoStateCheck(call, st, ok) ==
  LET n == call.name IN
    IF ~waInstances[n].exists
    THEN [call |-> [call EXCEPT !.res.status = "SUCCESS"],
          inst |-> waInstances[n]]
    ELSE IF ok
    THEN [call |-> [Log(call, "logoutInstance") EXCEPT
                      !.res.status = "SUCCESS"],
          inst |-> EngineLogout(waInstances[n])]
    ELSE [call |-> Throw(Log([call EXCEPT
                                !.failed = @ \cup {"logoutInstance"}],
                             "logoutInstance")),
          inst |-> waInstances[n]]

\* the body of logout after the await, for the state st it read: what it
\* does to the instance, and whether it throws
logoutBody(call, st, ok) ==
  LET n == call.name IN
    IF st = "close" THEN [call |-> Throw(call), inst |-> waInstances[n]]
    ELSE IF ~waInstances[n].exists
    THEN [call |-> [call EXCEPT !.res.status = "SUCCESS"],
          inst |-> waInstances[n]]
    ELSE IF ok
    THEN [call |-> [Log(call, "logoutInstance") EXCEPT
                      !.res.status = "SUCCESS"],
          inst |-> EngineLogout(waInstances[n])]
    ELSE [call |-> Throw(Log([call EXCEPT
                                !.failed = @ \cup {"logoutInstance"}],
                             "logoutInstance")),
          inst |-> waInstances[n]]

logout_resume(c) ==
  /\ Running(c, "logout", "resume")
  /\ \E ok \in BOOLEAN :
       LET r == logoutBody(calls[c], calls[c].st, ok) IN
         /\ SetCall(c, IF r.call.outcome = "threw" THEN r.call
                       ELSE Return(r.call))
         /\ SetInstance(calls[c].name, r.inst)
  /\ UNCHANGED <<saved, authStore>>

(* -------------------------------------------------------- deleteInstance *)

deleteInstance(c, n) ==
  /\ calls[c].op = "idle"
  /\ SetCall(c, [IdleCall EXCEPT !.op = "delete", !.pc = "teardown",
                                 !.name = n, !.st = connectionState(n)])
  /\ UNCHANGED <<waInstances, saved, authStore, qrSeen>>

\* as removeInstance, the removal emptying waInstances instead of deleting
\* the one key
removeInstance_ClearsRegistry(c, call) ==
  /\ waInstances' = [m \in Names |-> NoInstance]
  /\ qrSeen' = [m \in Names |-> NoSeen]
  /\ saved' = saved \ {call.name}
  /\ authStore' = [authStore EXCEPT ![call.name] = NoToken]
  /\ SetCall(c, Return([Log(Log(call, "delete"), "remove.instance")
                          EXCEPT !.res.status = "SUCCESS"]))

\* delete this.waMonitor.waInstances[instanceName]; the 'remove.instance'
\* event, on which the monitor drops what it stored for the name; return
removeInstance(c, call) ==
  LET n == call.name IN
    /\ SetInstance(n, NoInstance)
    /\ saved' = saved \ {n}
    /\ authStore' = [authStore EXCEPT ![n] = NoToken]
    /\ SetCall(c, Return([Log(Log(call, "delete"), "remove.instance")
                            EXCEPT !.res.status = "SUCCESS"]))

\* the receiver of sendDataWebhook is read before repository.auth.find is
\* awaited: with no instance under the name the TypeError is caught and
\* the handler goes straight to the removal
sendDelete(c, call, inst) ==
  IF inst.exists
  THEN /\ SetCall(c, [call EXCEPT !.pc = "find"])
       /\ SetInstance(call.name, inst)
       /\ UNCHANGED <<saved, authStore>>
  ELSE removeInstance(c, call)

TeardownOutcomes == {"ok", "removeRabbitmqQueues", "clearCacheChatwoot"}

\* the open check, the two cleanups, and the call of logout for a
\* connecting instance
deleteInstance_teardown(c) ==
  /\ Running(c, "delete", "teardown")
  /\ LET call == calls[c]
         n == call.name
         here == waInstances[n].exists
     IN IF call.st = "open"
        THEN /\ SetCall(c, Throw(call))
             /\ UNCHANGED <<waInstances, saved, authStore, qrSeen>>
        ELSE \E out \in TeardownOutcomes :
               LET c1 == IF here THEN Log(call, "removeRabbitmqQueues")
                         ELSE call
                   c2 == IF here THEN Log(c1, "clearCacheChatwoot") ELSE c1
               IN IF here /\ out = "removeRabbitmqQueues"
                  THEN /\ SetCall(c, Throw([c1 EXCEPT !.failed = {out}]))
                       /\ UNCHANGED <<waInstances, saved, authStore, qrSeen>>
                  ELSE IF here /\ out = "clearCacheChatwoot"
                  THEN /\ SetCall(c, Throw([c2 EXCEPT !.failed = {out}]))
                       /\ UNCHANGED <<waInstances, saved, authStore, qrSeen>>
                  ELSE IF call.st = "connecting"
                  THEN /\ SetCall(c, [c2 EXCEPT !.pc = "logout",
                                                !.st2 = connectionState(n)])
                       /\ UNCHANGED <<waInstances, saved, authStore, qrSeen>>
                  ELSE sendDelete(c, c2, waInstances[n])

\* logout resumes; what it throws is rethrown by deleteInstance
deleteInstance_logout(c) ==
  /\ Running(c, "delete", "logout")
  /\ \E ok \in BOOLEAN :
       LET r == logoutBody(calls[c], calls[c].st2, ok) IN
         IF r.call.outcome = "threw"
         THEN /\ SetCall(c, r.call)
              /\ UNCHANGED <<waInstances, saved, authStore, qrSeen>>
         ELSE sendDelete(c, [r.call EXCEPT !.res.status = "none"], r.inst)

\* as deleteInstance_find, the instance removed before INSTANCE_DELETE is
\* sent
deleteInstance_find_EventAfterRemoval(c) ==
  /\ Running(c, "delete", "find")
  /\ \E found \in BOOLEAN :
       LET call == calls[c]
           n == call.name
           gone == Log(Log(call, "delete"), "remove.instance")
       IN /\ SetInstance(n, NoInstance)
          /\ saved' = saved \ {n}
          /\ authStore' = [authStore EXCEPT ![n] = NoToken]
          /\ SetCall(c, Return([(IF found THEN Log(gone, "INSTANCE_DELETE")
                                  ELSE [gone EXCEPT !.failed = @ \cup {"find"}])
                                   EXCEPT !.res.status = "SUCCESS"]))

\* repository.auth.find settles: INSTANCE_DELETE is sent unless it
\* rejected, and the instance is removed
deleteInstance_find(c) ==
  /\ Running(c, "delete", "find")
  /\ \E found \in BOOLEAN :
       removeInstance(c, IF found THEN Log(calls[c], "INSTANCE_DELETE")
                         ELSE [calls[c] EXCEPT !.failed = @ \cup {"find"}])

(* ------------------------------------------------------------ the engine *)

\* the engine delivers a QR payload
EngineQr(n) ==
  /\ waInstances[n].exists
  /\ waInstances[n].state = "connecting"
  /\ waInstances[n].qrSeq < MaxQr
  /\ SetInstance(n, [waInstances[n] EXCEPT !.qrSeq = @ + 1,
                                           !.qrCode = waInstances[n].qrSeq + 1])
  /\ UNCHANGED <<saved, authStore, calls>>

\* the engine reports 'connecting' for a connect invoked earlier
EngineConnecting(n) ==
  /\ waInstances[n].exists
  /\ waInstances[n].starting
  /\ SetInstance(n, EngineConnect(waInstances[n]))
  /\ UNCHANGED <<saved, authStore, calls>>

\* the pairing succeeds
EngineOpen(n) ==
  /\ waInstances[n].exists
  /\ waInstances[n].state = "connecting"
  /\ SetInstance(n, [waInstances[n] EXCEPT !.state = "open", !.qrCode = 0])
  /\ UNCHANGED <<saved, authStore, calls>>

\* the pairing fails or times out
EngineClose(n) ==
  /\ waInstances[n].exists
  /\ waInstances[n].state = "connecting"
  /\ SetInstance(n, [waInstances[n] EXCEPT !.state = "close", !.qrCode = 0])
  /\ UNCHANGED <<saved, authStore, calls>>

(* ------------------------------------------------------ the specification *)

Step(c, n) ==
  \/ createInstance(c, n)
  \/ createInstance_checkDuplicateToken(c)
  \/ createInstance_saveInstance(c)
  \/ createInstance_register(c)
  \/ createInstance_generateHash(c)
  \/ createInstance_webhook(c)
  \/ createInstance_websocket(c)
  \/ createInstance_rabbitmq(c)
  \/ createInstance_sqs(c)
  \/ createInstance_typebot(c)
  \/ createInstance_plain(c)
  \/ createInstance_chatwoot(c)
  \/ createInstance_delay(c)
  \/ connectToWhatsapp(c, n)
  \/ connectToWhatsapp_delay(c)
  \/ restartInstance(c, n)
  \/ restartInstance_delay(c)
  \/ logout(c, n)
  \/ logout_resume(c)
  \/ deleteInstance(c, n)
  \/ deleteInstance_teardown(c)
  \/ deleteInstance_logout(c)
  \/ deleteInstance_find(c)
  \/ respond(c)

Engine(n) ==
  EngineQr(n) \/ EngineConnecting(n) \/ EngineOpen(n) \/ EngineClose(n)

Next ==
  \/ \E c \in SpecSlots, n \in SpecNames : Step(c, n)
  \/ \E n \in SpecNames : Engine(n)

Spec == Init /\ [][Next]_vars

(* -------------------------------------------------------------- dispatch *)

\* the event kinds dispatched: the two the controller sends, one every
\* default list holds, and one both the default and an explicit list hold
DispatchKinds ==
  {"INSTANCE_CREATE", "INSTANCE_DELETE", "CONNECTION_UPDATE", "MESSAGES_UPSERT"}

\* the configurations an adapter of a registered instance can have
ChannelConfigs ==
  { NoChannel,
    [enabled |-> TRUE, events |-> DefaultEvents],
    [enabled |-> TRUE, events |-> ExplicitEvents],
    [enabled |-> FALSE, events |-> DefaultEvents] }

\* an event is pushed through the instance; the deliveries of the adapters
\* in failing fail
dispatch(c, n) ==
  /\ calls[c].op = "idle"
  /\ waInstances[n].exists
  /\ \E kind \in DispatchKinds, failing \in SUBSET EventChannels :
       LET to == fanOut(waInstances[n], kind, failing, 1) IN
         SetCall(c, Return([IdleCall EXCEPT
                              !.op = "dispatch", !.name = n, !.kind = kind,
                              !.to = to, !.failed = failing \cap to]))
  /\ UNCHANGED <<waInstances, saved, authStore, qrSeen>>

\* one registered instance, its adapters configured in every way
InitDispatch ==
  /\ waInstances \in
       { [n \in Names |->
            IF n \in SpecNames
            THEN [NewInstance EXCEPT !.webhook = cfg[1], !.websocket = cfg[2],
                                     !.rabbitmq = cfg[3], !.sqs = cfg[4]]
            ELSE NoInstance] :
         cfg \in ChannelConfigs \X ChannelConfigs \X ChannelConfigs
                   \X ChannelConfigs }
  /\ saved = SpecNames
  /\ authStore = [n \in Names |-> IF n \in SpecNames THEN "generated"
                                   ELSE NoToken]
  /\ calls = [c \in Slots |-> IdleCall]
  /\ qrSeen = [n \in Names |-> NoSeen]

NextDispatch ==
  \/ \E c \in SpecSlots, n \in SpecNames : dispatch(c, n)
  \/ \E c \in SpecSlots : respond(c)

SpecDispatch == InitDispatch /\ [][NextDispatch]_vars

(* ---------------------------------------------- simultaneous connect calls *)

\* one instance, created and closed
InitConnect ==
  /\ waInstances = [n \in Names |-> IF n \in SpecNames THEN NewInstance
                                     ELSE NoInstance]
  /\ saved = SpecNames
  /\ authStore = [n \in Names |-> IF n \in SpecNames THEN "generated"
                                   ELSE NoToken]
  /\ calls = [c \in Slots |-> IdleCall]
  /\ qrSeen = [n \in Names |-> NoSeen]

\* connect requests arrive while others are suspended at an await
NextConnect ==
  \/ \E c \in Slots, n \in SpecNames :
       \/ connectToWhatsapp(c, n)
       \/ connectToWhatsapp_delay(c)
       \/ respond(c)
  \/ \E n \in SpecNames : Engine(n)

SpecConnect == InitConnect /\ [][NextConnect]_vars

(* ------------------------------------------------ two instances at once *)

\* a second instance, created with a webhook on the default events, closed
InitTwo ==
  /\ waInstances =
       [n \in Names |->
          IF n \in SpecNames THEN NoInstance
          ELSE ChannelCreate([NewInstance EXCEPT !.settings = TRUE],
                             "webhook", DefaultEvents)]
  /\ saved = Names \ SpecNames
  /\ authStore = [n \in Names |-> IF n \in SpecNames THEN NoToken
                                   ELSE "generated"]
  /\ calls = [c \in Slots |-> IdleCall]
  /\ qrSeen = [n \in Names |-> NoSeen]

\* the requests that connect and disconnect an existing instance
Lifecycle(c, n) ==
  \/ connectToWhatsapp(c, n)
  \/ connectToWhatsapp_delay(c)
  \/ logout(c, n)
  \/ logout_resume(c)
  \/ respond(c)

\* every request on one name, with the websocket as its only optional
\* channel and every collaborator answering, while the other name is being
\* connected and disconnected
NextTwo ==
  \/ \E c \in SpecSlots, n \in SpecNames :
       /\ Step(c, n)
       /\ Requested(calls'[c]) \subseteq {"websocket"}
       /\ calls'[c].failed = {}
  \/ \E c \in Slots \ SpecSlots, n \in Names \ SpecNames : Lifecycle(c, n)
  \/ \E n \in Names : Engine(n)

SpecTwo == InitTwo /\ [][NextTwo]_vars

(* ---------------------------------------------------------------- claims *)

\* the step is one of call c's
StepOf(c) == calls'[c] # calls[c]

C3_DuplicateTokenFailsFirst ==
  [][\A c \in Slots :
       ( /\ Running(c, "create", "checkDuplicateToken")
         /\ checkDuplicateToken(calls[c].req.token)
         /\ StepOf(c) )
         => /\ calls'[c].pc = "done" /\ calls'[c].outcome = "threw"
            /\ calls'[c].trace = <<"checkDuplicateToken">>
            /\ calls'[c].done = {}
            /\ UNCHANGED <<waInstances, saved, authStore>>]_vars

\* a request with a held token was refused
C3_Witness ==
  \E c \in Slots :
    /\ calls[c].op = "create" /\ calls[c].pc = "done"
    /\ calls[c].outcome = "threw"
    /\ calls[c].req.token # NoToken
    /\ checkDuplicateToken(calls[c].req.token)
    /\ calls[c].trace = <<"checkDuplicateToken">>

\* the call has ended
Ended(c, op) == calls[c].op = op /\ calls[c].pc = "done"

\* at least one of the three chatwoot fields is given and one is missing
PartialChatwoot(req) ==
  /\ req.chatwoot_account_id \/ req.chatwoot_token \/ req.chatwoot_url # "none"
  /\ ~(req.chatwoot_account_id /\ req.chatwoot_token
         /\ req.chatwoot_url # "none")

\* no collaborator raised during the call and its urls are well formed
Untroubled(call) ==
  /\ call.failed = {}
  /\ call.req.webhook # "invalid" /\ call.req.typebot_url # "invalid"

\* C2: with the chatwoot fields partially supplied createInstance fails,
\* and the Registry holds no entry for the name afterwards (looked at
\* where nothing else goes wrong).
C2_PartialChatwootFails ==
  \A c \in Slots :
    ( /\ Ended(c, "create") /\ PartialChatwoot(calls[c].req)
      /\ Untroubled(calls[c]) )
      => calls[c].outcome = "threw" /\ ~waInstances[calls[c].name].exists

\* the block of an optional channel failed: its url is malformed, its
\* events argument is missing where .length is read, or its service raised
ChannelFailed(call, ch) ==
  \/ ch \in call.failed
  \/ ch = "webhook" /\ call.req.webhook = "invalid"
  \/ ch = "typebot" /\ call.req.typebot_url = "invalid"
  \/ /\ ch \in EventChannels \ {"webhook"}
     /\ call.req.enabled[ch] /\ ~call.req.events[ch].present

\* the call was given another reason to fail
OtherFailure(call) ==
  \/ call.req.integration = WHATSAPP_BUSINESS /\ ~call.req.number
  \/ "connect" \in call.failed
  \/ /\ call.req.chatwoot_account_id /\ call.req.chatwoot_token
     /\ call.req.chatwoot_url = "invalid" \/ ~call.req.chatwoot_flags

\* C4: a failure in the block of one optional channel, a malformed url
\* included, does not abort createInstance: the other requested channels
\* are configured and the call returns 'created'.
C4_ChannelFailureIsolated ==
  \A c \in Slots :
    ( /\ Ended(c, "create")
      /\ \E ch \in OptionalChannels : ChannelFailed(calls[c], ch)
      /\ ~OtherFailure(calls[c]) )
      => /\ calls[c].outcome = "returned" /\ calls[c].res.status = "created"
         /\ \A ch \in Requested(calls[c]) :
              ch \in calls[c].done \/ ChannelFailed(calls[c], ch)

\* C5: when the engine's connect fails inside createInstance (qrcode asked
\* for), the call still returns 'created', the instance stays registered,
\* closed or connecting, and no QR is returned.
C5_EngineFailureTolerated ==
  \A c \in Slots :
    (Ended(c, "create") /\ "connect" \in calls[c].failed)
      => /\ calls[c].outcome = "returned" /\ calls[c].res.status = "created"
         /\ waInstances[calls[c].name].exists
         /\ waInstances[calls[c].name].state \in {"close", "connecting"}
         /\ calls[c].res.qrcode = 0

\* C6: for every event channel requested, the list applied and reported
\* is the default catalog (as a set) when the caller's list is omitted or
\* empty, and the caller's list otherwise.
C6_EventListResolved ==
  \A c \in Slots : \A ch \in EventChannels :
    ( /\ Ended(c, "create") /\ calls[c].outcome = "returned"
      /\ calls[c].req.enabled[ch] /\ ch \notin calls[c].failed )
      => LET given == calls[c].req.events[ch]
             applied == waInstances[calls[c].name][ch]
             reported == calls[c].res[ch]
         IN /\ applied.enabled /\ reported.present
            /\ IF ~given.present \/ given.list = <<>>
               THEN /\ Range(applied.events) = Range(DefaultEvents)
                    /\ Range(reported.list) = Range(DefaultEvents)
               ELSE /\ applied.events = given.list
                    /\ reported.list = given.list

\* the state connectToWhatsapp read makes it a repeated connect
Repeated(c) ==
  /\ calls'[c].op = "connect" /\ StepOf(c)
  /\ calls'[c].st \in {"connecting", "open"}

\* C7, as amended: connectToWhatsapp on a connecting or open instance
\* does not invoke the engine's connect and changes nothing of the
\* instance; on a connecting one it returns the QR the previous such call
\* returned, provided the engine has not touched the instance in between.
C7_ConnectIdempotent ==
  [][\A c \in Slots :
       Repeated(c)
         => /\ waInstances' = waInstances
            /\ "connect" \notin Range(calls'[c].trace)
            /\ (calls'[c].st = "connecting" /\ calls'[c].seen.quiet)
                 => calls'[c].res.qrcode = calls'[c].seen.qr]_vars

\* the second of two calls on a connecting instance returned the QR of the
\* first
C7_Witness ==
  \E c \in Slots :
    /\ Ended(c, "connect") /\ calls[c].st = "connecting"
    /\ calls[c].seen.quiet /\ calls[c].seen.qr # 0
    /\ calls[c].res.qrcode = calls[c].seen.qr
    /\ calls[c].trace = <<>>

\* C7, as stated: ... two successive calls while the state stays
\* connecting return the same QR.
C7_SameQrWhileConnecting ==
  [][\A c \in Slots :
       Repeated(c)
         => /\ waInstances' = waInstances
            /\ "connect" \notin Range(calls'[c].trace)
            /\ (calls'[c].st = "connecting" /\ calls'[c].seen.valid)
                 => calls'[c].res.qrcode = calls'[c].seen.qr]_vars

\* C8: deleteInstance on an open instance fails, the instance stays and no
\* teardown step runs; on a closed or connecting one it succeeds and the
\* instance is gone.
C8_DeleteByState ==
  \A c \in Slots :
    Ended(c, "delete")
      => /\ calls[c].st = "open"
              => /\ calls[c].outcome = "threw"
                 /\ waInstances[calls[c].name].exists
                 /\ calls[c].trace = <<>>
         /\ calls[c].st \in {"close", "connecting"}
              => /\ calls[c].outcome = "returned"
                 /\ ~waInstances[calls[c].name].exists

\* logout resumes after reading the state
Resumes(c) == Running(c, "logout", "resume") /\ StepOf(c)

\* C9, as amended: logout on a closed instance fails without invoking the
\* engine's logout and leaves the instance as it is; on a connecting or
\* open one (still registered when logout resumes) it invokes the engine's
\* logout, and reports success unless that call raises, in which case the
\* error is rethrown.
C9_LogoutByState ==
  [][\A c \in Slots :
       Resumes(c)
         => /\ calls[c].st = "close"
                 => /\ calls'[c].outcome = "threw"
                    /\ calls'[c].trace = <<>>
                    /\ waInstances' = waInstances
            /\ ( /\ calls[c].st \in {"connecting", "open"}
                 /\ waInstances[calls[c].name].exists )
                 => /\ calls'[c].trace = <<"logoutInstance">>
                    /\ IF "logoutInstance" \in calls'[c].failed
                       THEN calls'[c].outcome = "threw"
                       ELSE /\ calls'[c].outcome = "returned"
                            /\ calls'[c].res.status = "SUCCESS"]_vars

\* logout was refused on a closed instance
C9_Witness ==
  \E c \in Slots :
    /\ Ended(c, "logout") /\ calls[c].st = "close"
    /\ calls[c].outcome = "threw"
    /\ waInstances[calls[c].name].exists
    /\ waInstances[calls[c].name].state = "close"

\* C9, as stated: ... on a connecting or open instance it invokes the
\* engine's logout and reports success.
C9_LogoutAlwaysSucceeds ==
  [][\A c \in Slots :
       Resumes(c)
         => /\ calls[c].st = "close"
                 => /\ calls'[c].outcome = "threw"
                    /\ calls'[c].trace = <<>>
                    /\ waInstances' = waInstances
            /\ ( /\ calls[c].st \in {"connecting", "open"}
                 /\ waInstances[calls[c].name].exists )
                 => /\ calls'[c].trace = <<"logoutInstance">>
                    /\ calls'[c].outcome = "returned"
                    /\ calls'[c].res.status = "SUCCESS"]_vars

\* the engine's connect calls the handler has made
Connects(call) ==
  Cardinality({i \in 1..Len(call.trace) : call.trace[i] = "connect"})

\* C10: a createInstance call with qrcode asked for that returns has
\* invoked the engine's connect exactly once, whatever channels it was
\* given, the three chatwoot fields included (looked at where nothing
\* goes wrong).
C10_ConnectOnceWhenQrAsked ==
  \A c \in Slots :
    ( /\ Ended(c, "create") /\ calls[c].outcome = "returned"
      /\ calls[c].req.qrcode /\ Untroubled(calls[c]) )
      => Connects(calls[c]) = 1

\* the result reports the channel as enabled, or with an event list
Reported(call, ch) ==
  CASE ch = "webhook" -> call.res.webhook.present
    [] ch \in FlagChannels -> call.res.enabled[ch] \/ call.res[ch].present
    [] ch = "typebot" -> call.res.typebot

\* the configure step of the channel ran in this call and nothing in it
\* failed
Configured(call, ch) == ch \in call.done /\ ~ChannelFailed(call, ch)

\* C11: the result of createInstance reports a channel as enabled, or
\* with an applied event list, exactly when the channel's configure step
\* completed without failure during the call.
C11_ResultReflectsChannels ==
  \A c \in Slots : \A ch \in OptionalChannels :
    (Ended(c, "create") /\ calls[c].outcome = "returned")
      => (Reported(calls[c], ch) <=> Configured(calls[c], ch))

\* C12: an error raised during connectToWhatsapp (the engine's connect
\* failing, or the named instance not existing) reaches the caller as an
\* error, not as a normal return.
C12_ConnectErrorSurfaced ==
  \A c \in Slots :
    ( /\ Ended(c, "connect")
      /\ calls[c].st = "undefined" \/ "connect" \in calls[c].failed )
      => calls[c].outcome = "threw"

\* the request asks for no channel at all
NoChannels(call) ==
  /\ Requested(call) = {}
  /\ ~call.req.chatwoot_account_id /\ ~call.req.chatwoot_token
  /\ call.req.chatwoot_url = "none"

\* C13: a createInstance call with qrcode=false and no channels never
\* invokes the engine's connect; its result has status 'created' and no
\* QR, and the new instance is closed on return.
C13_NoConnectUnlessAsked ==
  \A c \in Slots :
    (Ended(c, "create") /\ ~calls[c].req.qrcode /\ NoChannels(calls[c]))
      => /\ "connect" \notin Range(calls[c].trace)
         /\ calls[c].outcome = "returned"
              => /\ calls[c].res.status = "created"
                 /\ calls[c].res.qrcode = 0
                 /\ waInstances[calls[c].name].exists
                 /\ waInstances[calls[c].name].state = "close"

\* such a call returned its result
C13_Witness ==
  \E c \in Slots :
    /\ Ended(c, "create") /\ calls[c].outcome = "returned"
    /\ ~calls[c].req.qrcode /\ NoChannels(calls[c])
    /\ calls[c].req.integration = WHATSAPP_BAILEYS
    /\ calls[c].res.status = "created"
    /\ waInstances[calls[c].name].state = "close"

\* the adapters of the instance that are enabled and subscribed to the kind
Subscribed(inst, kind) ==
  {ch \in EventChannels : inst[ch].enabled /\ kind \in Range(inst[ch].events)}

Invokes(c) ==
  /\ calls'[c].op = "connect" /\ StepOf(c)
  /\ Connects(calls'[c]) > Connects(calls[c])

\* C15: simultaneous connectToWhatsapp calls on a closed instance are
\* serialized: the engine's connect is invoked only on an instance that is
\* closed with no earlier invocation still under way, so at most once until
\* the state next returns to closed.
C15_ConnectSerialized ==
  [][\A c \in Slots :
       Invokes(c)
         => /\ waInstances[calls'[c].name].state = "close"
            /\ ~waInstances[calls'[c].name].starting]_vars

\* the step of deleteInstance c invokes the engine's logout, or removes
\* the instance from waInstances
Disconnects(c) ==
  /\ calls[c].op = "delete" /\ StepOf(c)
  /\ \/ Len(calls'[c].trace) > Len(calls[c].trace)
        /\ "logoutInstance" \in
              {calls'[c].trace[i] : i \in Len(calls[c].trace) + 1
                                           .. Len(calls'[c].trace)}
     \/ /\ waInstances[calls[c].name].exists
        /\ ~waInstances'[calls[c].name].exists

\* C16: whatever the engine does while deleteInstance is suspended,
\* deleteInstance never invokes the engine's logout on, nor removes, an
\* instance that is open at that moment.
C16_DeleteNeverDisconnectsOpen ==
  [][\A c \in Slots :
       Disconnects(c) => waInstances[calls[c].name].state # "open"]_vars

\* the teardown steps of deleteInstance
TeardownSteps == {"removeRabbitmqQueues", "clearCacheChatwoot", "logoutInstance"}

\* C17: in deleteInstance on a closed or connecting instance a teardown
\* step that fails prevents neither the steps after it, nor the
\* INSTANCE_DELETE event, nor the removal of the instance.
C17_TeardownIsolated ==
  \A c \in Slots :
    ( /\ Ended(c, "delete") /\ calls[c].st \in {"close", "connecting"}
      /\ calls[c].failed \cap TeardownSteps # {} )
      => /\ "clearCacheChatwoot" \in Range(calls[c].trace)
         /\ "find" \notin calls[c].failed
              => "INSTANCE_DELETE" \in Range(calls[c].trace)
         /\ "delete" \in Range(calls[c].trace)
         /\ ~waInstances[calls[c].name].exists

\* where the call made the collaborator call x
Pos(t, x) == CHOOSE i \in 1..Len(t) : t[i] = x

\* the order of what a successful deleteInstance did: the removal, then
\* 'remove.instance'; the teardown steps, then INSTANCE_DELETE if it was
\* sent, then the removal
DeleteOrdered(call) ==
  LET t == call.trace IN
    /\ "delete" \in Range(t) /\ "remove.instance" \in Range(t)
    /\ Pos(t, "delete") < Pos(t, "remove.instance")
    /\ call.st # "undefined"
         => {"removeRabbitmqQueues", "clearCacheChatwoot"} \subseteq Range(t)
    /\ call.st = "connecting" => "logoutInstance" \in Range(t)
    /\ "INSTANCE_DELETE" \in Range(t)
         => /\ Pos(t, "INSTANCE_DELETE") < Pos(t, "delete")
            /\ \A i \in 1..Len(t) :
                 t[i] \in TeardownSteps => i < Pos(t, "INSTANCE_DELETE")

\* C18, as amended: in every successful deleteInstance the teardown steps
\* come first, INSTANCE_DELETE, when it is sent, comes after them and
\* strictly before the removal, and 'remove.instance' follows the
\* removal; INSTANCE_DELETE is sent exactly when there is an instance
\* under the name and the lookup of its id does not fail.
C18_DeleteOrder ==
  \A c \in Slots :
    (Ended(c, "delete") /\ calls[c].outcome = "returned")
      => /\ DeleteOrdered(calls[c])
         /\ "INSTANCE_DELETE" \in Range(calls[c].trace)
              <=> (calls[c].st # "undefined" /\ "find" \notin calls[c].failed)

\* a connecting instance was logged out, announced as deleted, and removed
C18_Witness ==
  \E c \in Slots :
    /\ Ended(c, "delete") /\ calls[c].outcome = "returned"
    /\ calls[c].trace = << "removeRabbitmqQueues", "clearCacheChatwoot",
                           "logoutInstance", "INSTANCE_DELETE", "delete",
                           "remove.instance" >>
    /\ ~waInstances[calls[c].name].exists

\* C18, as stated: in every successful deleteInstance INSTANCE_DELETE is
\* sent, after the teardown steps and strictly before the removal, and
\* 'remove.instance' follows the removal (looked at for a registered
\* instance).
C18_DeleteAlwaysAnnounced ==
  \A c \in Slots :
    ( /\ Ended(c, "delete") /\ calls[c].outcome = "returned"
      /\ calls[c].st # "undefined" )
      => /\ DeleteOrdered(calls[c])
         /\ "INSTANCE_DELETE" \in Range(calls[c].trace)

\* the step of createInstance c sends INSTANCE_CREATE
Announces(c) ==
  /\ calls'[c].op = "create" /\ StepOf(c)
  /\ "INSTANCE_CREATE" \notin Range(calls[c].trace)
  /\ "INSTANCE_CREATE" \in Range(calls'[c].trace)

\* C19: createInstance sends INSTANCE_CREATE after it has put the
\* instance into the Registry and before it tries to configure any
\* channel.
C19_CreateAnnouncedAfterRegister ==
  [][\A c \in Slots :
       Announces(c)
         => /\ "register" \in Range(calls'[c].trace)
            /\ Pos(calls'[c].trace, "register")
                 < Pos(calls'[c].trace, "INSTANCE_CREATE")
            /\ Requested(calls'[c]) = {} /\ calls'[c].done = {}]_vars

\* all three chatwoot fields are given, and the url is malformed or one of
\* sign_msg, reopen_conversation, conversation_pending is not a boolean
BadChatwoot(req) ==
  /\ req.chatwoot_account_id /\ req.chatwoot_token
  /\ req.chatwoot_url # "none"
  /\ req.chatwoot_url = "invalid" \/ ~req.chatwoot_flags

\* C20: with all three chatwoot fields given and the url malformed or a
\* required flag not a boolean, createInstance fails and
\* chatwootService.create is never invoked.
C20_BadChatwootFails ==
  \A c \in Slots :
    (Ended(c, "create") /\ BadChatwoot(calls[c].req))
      => /\ calls[c].outcome = "threw"
         /\ "chatwoot" \notin calls[c].done \cup calls[c].failed
         /\ ~waInstances[calls[c].name].chatwoot

\* a request with the three fields and a malformed url was refused after
\* its channels were configured
C20_Witness ==
  \E c \in Slots :
    /\ Ended(c, "create") /\ calls[c].outcome = "threw"
    /\ calls[c].req.chatwoot_account_id /\ calls[c].req.chatwoot_token
    /\ calls[c].req.chatwoot_url = "invalid" /\ calls[c].req.chatwoot_flags
    /\ calls[c].done # {}
    /\ Untroubled(calls[c])

\* a step of restartInstance c
Restarts(c) == calls'[c].op = "restart" /\ StepOf(c)

\* C21: restartInstance invokes the engine's reload only on an open
\* instance; on a closed, connecting or absent one it invokes nothing,
\* leaves the state and the Registry as they are, and returns the current
\* state.
C21_RestartOnlyWhenOpen ==
  [][\A c \in Slots :
       Restarts(c)
         => LET n == calls'[c].name IN
              /\ Len(calls'[c].trace) > Len(calls[c].trace)
                   => waInstances[n].exists /\ waInstances[n].state = "open"
              /\ (calls[c].op = "idle" /\ connectionState(n) # "open")
                   => /\ calls'[c].trace = <<>>
                      /\ waInstances' = waInstances
                      /\ calls'[c].outcome = "returned"
                      /\ calls'[c].res.status = "state"
                      /\ calls'[c].res.state = connectionState(n)]_vars

\* a restart of a connecting instance returned 'connecting' and did nothing
C21_Witness ==
  \E c \in Slots :
    /\ Ended(c, "restart") /\ calls[c].st = "connecting"
    /\ calls[c].outcome = "returned"
    /\ calls[c].res.state = "connecting" /\ calls[c].trace = <<>>
    /\ waInstances[calls[c].name].state = "connecting"

\* a step of a logout or deleteInstance that found no instance under the
\* name
OnAbsent(c) ==
  /\ calls'[c].op \in {"logout", "delete"} /\ StepOf(c)
  /\ calls'[c].st = "undefined"

\* C22: logout and deleteInstance for a name the Registry does not hold
\* leave the Registry unchanged, invoke no engine operation, and report an
\* error, not success.
C22_AbsentIsAnError ==
  [][\A c \in Slots :
       OnAbsent(c)
         => /\ waInstances' = waInstances
            /\ Range(calls'[c].trace) \cap
                 {"logoutInstance", "connect", "reloadConnection"} = {}
            /\ calls'[c].pc = "done" => calls'[c].outcome = "threw"]_vars

\* the name the call that takes the step addresses
Addressed(c) == IF calls'[c].op = "idle" THEN calls[c].name ELSE calls'[c].name

\* C23: a step of an operation addressed to one instance leaves the
\* Registry entry, the connection state and the channel configuration of
\* every other instance as they are, whatever requests on the other
\* instances are in flight.
C23_OtherInstancesUntouched ==
  [][\A c \in Slots :
       StepOf(c)
         => \A b \in Names \ {Addressed(c)} :
              waInstances'[b] = waInstances[b]]_vars

\* one instance was created, connected and deleted while the other, with
\* its webhook, was brought to open
C23_Witness ==
  \E c \in Slots :
    /\ Ended(c, "delete") /\ calls[c].name = "alice"
    /\ calls[c].st = "connecting" /\ calls[c].outcome = "returned"
    /\ ~waInstances["alice"].exists
    /\ waInstances["bob"].exists /\ waInstances["bob"].state = "open"
    /\ waInstances["bob"].webhook.enabled

====
